---- MODULE Spec2Model ----
(***************************************************************************)
(* CrosswordCreator (generate.py): the crossword CSP engine.               *)
(*                                                                         *)
(* A behaviour is one CrosswordCreator object.  Init is the state after    *)
(* __init__ for a puzzle (variables, lengths, overlaps, word list) drawn   *)
(* from bounded sets; the actions are calls of its public methods          *)
(* (enforce_node_consistency, revise, ac3, solve) made one after another   *)
(* by a caller, and the steps of the loops inside ac3 and backtrack.       *)
(*                                                                         *)
(* Spec is a caller of the consistency methods and solve; HelperSpec is a  *)
(* caller that also runs consistent, select_unassigned_variable and        *)
(* order_domain_values on their own and keeps what they return; MainSpec   *)
(* is main, which only runs solve(), on lists of two-letter words.         *)
(*                                                                         *)
(* Words are sequences of letters; Python's 0-based index i is the TLA+    *)
(* index i + 1.                                                            *)
(*                                                                         *)
(* Iteration orders.  self.crossword.variables is a set that is never      *)
(* modified, so every loop over it (and over the dict self.domains built   *)
(* from it) visits the variables in one fixed order per object.  The       *)
(* puzzles of Init are closed under renaming of the variables, so that     *)
(* order is taken to be 1, 2, 3.  crossword.neighbors(v) builds a new set  *)
(* at every call and self.domains[v] is a set of strings: the order in     *)
(* which their elements are visited is a nondeterministic choice.          *)
(***************************************************************************)
EXTENDS Integers, Sequences, FiniteSets, TLC

\* ------------------------------------------------------------- bounds
\* An explicitly supplied arc list (ac3(arcs)) holds at most MaxArcs arcs.
MaxArcs == 1

\* The slot lengths and the variables.
Lengths == {1, 2}
Variables == {1, 2, 3}

\* The words a word list is drawn from, of the lengths in Lengths.
WordUniverse == {<<"a">>, <<"a", "b">>, <<"b", "a">>}

\* Python's None.
None == <<>>

\* Ordered pairs of distinct variables: the keys of crossword.overlaps.
Arcs == {a \in Variables \X Variables : a[1] # a[2]}

VARIABLES
    length,         \* variable.length of every variable
    overlaps,       \* self.crossword.overlaps: None or <<i, j>> (0-based)
    words,          \* self.crossword.words
    domains,        \* self.domains
    pc,             \* where the caller / the running method is
    op,             \* the public method running: "none", "ac3", "ac3_arcs", "solve"
    prev,           \* the public call made just before: "enforce_node_consistency",
                    \* "ac3_true" / "ac3_false" (ac3() and what it returned), or
                    \* "other" (also once a call that does not ask has started)
    arcs_queue,     \* ac3's deque
    ac3_result,     \* what the last ac3 call returned: "pending", "True", "False"
    assignment,     \* backtrack's assignment dict (a function on its keys)
    stack,          \* the backtrack calls in their for loop: the variable
                    \* selected, the values still to try, and the assignment
                    \* as it was when the call was entered
    result,         \* what solve returned: kind "pending", "None" or
                    \* "assignment", and the assignment
    returned        \* what the caller keeps of its last call of revise,
                    \* consistent, select_unassigned_variable or
                    \* order_domain_values: the method, its arguments, and
                    \* what it returned

vars == <<length, overlaps, words, domains, pc, op, prev, arcs_queue,
          ac3_result, assignment, stack, result, returned>>

\* ------------------------------------------------------ puzzle model
\* crossword.neighbors(var): the variables overlapping var.
neighbors(var) == {v \in Variables : v # var /\ overlaps[<<v, var>>] # None}

\* The character of word at Python index i.
CharAt(word, i) == word[i + 1]

\* overlaps is symmetric with the index roles swapped, and its indices lie
\* inside the two slots.
WellFormedOverlaps(len, ov) ==
    \A a \in Arcs :
        /\ ov[a] # None =>
              /\ ov[a][1] < len[a[1]]
              /\ ov[a][2] < len[a[2]]
              /\ ov[<<a[2], a[1]>>] = <<ov[a][2], ov[a][1]>>
        /\ ov[a] = None => ov[<<a[2], a[1]>>] = None

OverlapValues ==
    {None} \cup {<<i, j>> : i \in 0..1, j \in 0..1}

\* The empty dict.
EmptyAssignment == [v \in {} |-> None]

\* solve has not returned.
Pending == [kind |-> "pending", value |-> EmptyAssignment]

\* The caller keeps no return value of revise, consistent,
\* select_unassigned_variable or order_domain_values.
NoReturn == [method |-> "none"]

\* __init__: every variable starts with all the words.
Init ==
    /\ length \in [Variables -> Lengths]
    /\ overlaps \in {ov \in [Arcs -> OverlapValues] : WellFormedOverlaps(length, ov)}
    /\ words \in SUBSET WordUniverse
    /\ domains = [v \in Variables |-> words]
    /\ pc = "idle"
    /\ op = "none"
    /\ prev = "other"
    /\ arcs_queue = <<>>
    /\ ac3_result = "pending"
    /\ assignment = EmptyAssignment
    /\ stack = <<>>
    /\ result = Pending
    /\ returned = NoReturn

\* ------------------------------------------ enforce_node_consistency
\* Mutant of NodeConsistentDomains: the comprehension filters the word
\* list again instead of the current domain.
NodeConsistentDomains_FromWords(doms) ==
    [v \in Variables |-> {word \in words : Len(word) = length[v]}]

\* Mutant of NodeConsistentDomains: line 107 keeps the words that are not
\* longer than the variable.
NodeConsistentDomains_AtMost(doms) ==
    [v \in Variables |-> {word \in doms[v] : Len(word) <= length[v]}]

\* The domains after the loop of lines 104-108.
NodeConsistentDomains(doms) ==
    [v \in Variables |-> {word \in doms[v] : Len(word) = length[v]}]

\* Every word of every domain has its variable's length: the indices
\* revise uses are then inside the words.
NodeConsistent(doms) ==
    \A v \in Variables : \A word \in doms[v] : Len(word) = length[v]

\* A public call starts: the caller keeps nothing of the previous call's
\* return value, and the previous call's locals are gone.
FreshCall ==
    /\ ac3_result' = "pending"
    /\ assignment' = EmptyAssignment
    /\ result' = Pending

\* A caller runs enforce_node_consistency().
enforce_node_consistency ==
    /\ pc = "idle"
    /\ domains' = NodeConsistentDomains(domains)
    /\ prev' = "enforce_node_consistency"
    /\ FreshCall
    /\ returned' = NoReturn
    /\ UNCHANGED <<length, overlaps, words, pc, op, arcs_queue, stack>>

\* ------------------------------------------------------------ revise
\* Mutant of FoundWordConsistent: the loop of line 141 looks at one word
\* of y's domain only.
FoundWordConsistent_OneWord(word_x, x, y, doms) ==
    /\ doms[y] # {}
    /\ LET word_y == CHOOSE w \in doms[y] : TRUE
       IN  CharAt(word_x, overlaps[<<x, y>>][1]) = CharAt(word_y, overlaps[<<x, y>>][2])

\* Some word of y's domain agrees with word_x at the overlap.
FoundWordConsistent(word_x, x, y, doms) ==
    \E word_y \in doms[y] :
        CharAt(word_x, overlaps[<<x, y>>][1]) = CharAt(word_y, overlaps[<<x, y>>][2])

\* The words revise(x, y) collects in remove_x_domain.
RemoveXDomain(x, y, doms) ==
    IF overlaps[<<x, y>>] = None
    THEN {}
    ELSE {word_x \in doms[x] : ~FoundWordConsistent(word_x, x, y, doms)}

\* self.domains after revise(x, y).
ReviseDomains(x, y, doms) ==
    [doms EXCEPT ![x] = doms[x] \ RemoveXDomain(x, y, doms)]

\* Mutant of ReviseReturn: revised is set as soon as the pair overlaps.
ReviseReturn_Overlap(x, y, doms) == overlaps[<<x, y>>] # None

\* What revise(x, y) returns.
ReviseReturn(x, y, doms) == RemoveXDomain(x, y, doms) # {}

\* A call revise(x, y) on a node-consistent store; kept is what the
\* caller keeps of it.
ReviseCall(x, y, kept) ==
    /\ pc = "idle"
    /\ NodeConsistent(domains)
    /\ domains' = ReviseDomains(x, y, domains)
    /\ returned' = kept
    /\ prev' = "other"
    /\ FreshCall
    /\ UNCHANGED <<length, overlaps, words, pc, op, arcs_queue, stack>>

\* A caller runs revise(x, y) for its effect on the store and drops what
\* it returns.
revise == \E a \in Arcs : ReviseCall(a[1], a[2], NoReturn)

\* A caller runs revise(x, y) and keeps what it returns.
call_revise ==
    \E a \in Arcs :
        ReviseCall(a[1], a[2],
                   [method |-> "revise", x |-> a[1], y |-> a[2],
                    value |-> ReviseReturn(a[1], a[2], domains)])

\* --------------------------------------------------------------- ac3
\* The sequences that list every element of S once.
Orderings(S) ==
    {s \in [1..Cardinality(S) -> S] : \A i, j \in 1..Cardinality(S) : s[i] = s[j] => i = j}

\* The arcs (variable, neighbor) of one variable, in an order of its neighbors.
ArcsOf(variable) ==
    {[i \in 1..Len(s) |-> <<variable, s[i]>>] : s \in Orderings(neighbors(variable))}

\* The queues lines 173-175 can build: the variables in order, the
\* neighbors of each in any order.
DefaultArcsQueues ==
    {q1 \o q2 \o q3 : q1 \in ArcsOf(1), q2 \in ArcsOf(2), q3 \in ArcsOf(3)}

\* The arc lists a caller passes as `arcs`.
ArcLists == UNION {[1..n -> Arcs] : n \in 0..MaxArcs}

\* A caller runs ac3() on a node-consistent store: lines 169-175.
ac3 ==
    /\ pc = "idle"
    /\ NodeConsistent(domains)
    /\ arcs_queue' \in DefaultArcsQueues
    /\ pc' = "ac3"
    /\ op' = "ac3"
    /\ prev' = IF prev \in {"ac3_true", "ac3_false"} THEN prev ELSE "other"
    /\ FreshCall
    /\ returned' = NoReturn
    /\ UNCHANGED <<length, overlaps, words, domains, stack>>

\* A caller runs ac3(arcs) on a node-consistent store: lines 169, 176-178.
ac3_arcs ==
    /\ pc = "idle"
    /\ NodeConsistent(domains)
    /\ arcs_queue' \in ArcLists
    /\ pc' = "ac3"
    /\ op' = "ac3_arcs"
    /\ prev' = "other"
    /\ FreshCall
    /\ returned' = NoReturn
    /\ UNCHANGED <<length, overlaps, words, domains, stack>>

\* Mutant of PopLeft: the arc is read and left at the head of the deque.
PopLeft_Peek(queue) == queue

\* popleft (line 182): what stays in the deque.
PopLeft(queue) == Tail(queue)

\* ac3 returns r.  Under solve (line 95) the value is dropped and line 96
\* calls backtrack(dict()); otherwise the caller gets it.
Ac3Return(r) ==
    /\ ac3_result' = IF r THEN "True" ELSE "False"
    /\ arcs_queue' = <<>>
    /\ IF op = "solve"
       THEN /\ pc' = "backtrack"
            /\ UNCHANGED <<op, prev>>
       ELSE /\ pc' = "idle"
            /\ op' = "none"
            /\ prev' = IF op = "ac3_arcs" THEN "other"
                       ELSE IF r THEN "ac3_true" ELSE "ac3_false"

\* Mutant of Requeued: nothing is appended after a revision.
Requeued_Nothing(x, y) == {<<>>}

\* The arcs lines 189-193 append after a revision of (x, y), in an order
\* of x's neighbors.
Requeued(x, y) ==
    {[i \in 1..Len(s) |-> <<s[i], x>>] : s \in Orderings(neighbors(x) \ {y})}

\* One pass of the while loop of lines 181-195 (or its exit).
ac3_loop ==
    /\ pc = "ac3"
    /\ IF arcs_queue = <<>>
       THEN /\ Ac3Return(TRUE)
            /\ UNCHANGED domains
       ELSE LET arc == Head(arcs_queue)
                x == arc[1]
                y == arc[2]
            IN  IF ReviseReturn(x, y, domains)
                THEN /\ domains' = ReviseDomains(x, y, domains)
                     /\ IF domains'[x] = {}
                        THEN Ac3Return(FALSE)
                        ELSE /\ \E more \in Requeued(x, y) :
                                   arcs_queue' = PopLeft(arcs_queue) \o more
                             /\ UNCHANGED <<pc, op, prev, ac3_result>>
                ELSE /\ arcs_queue' = PopLeft(arcs_queue)
                     /\ UNCHANGED <<domains, pc, op, prev, ac3_result>>
    /\ UNCHANGED <<length, overlaps, words, assignment, stack, result, returned>>

\* ------------------------------------------------------------- solve
\* main (lines 327-329) runs solve() on the object as constructed:
\* line 94, and line 95's entry into ac3().
solve ==
    /\ pc = "idle"
    /\ domains = [v \in Variables |-> words]
    /\ domains' = NodeConsistentDomains(domains)
    /\ arcs_queue' \in DefaultArcsQueues
    /\ pc' = "ac3"
    /\ op' = "solve"
    /\ prev' = "other"
    /\ FreshCall
    /\ returned' = NoReturn
    /\ UNCHANGED <<length, overlaps, words, stack>>

\* --------------------------------------------------- search helpers
\* assignment_complete(assignment).
assignment_complete(asg) == \A variable \in Variables : variable \in DOMAIN asg

\* The variables select_unassigned_variable files under the smallest
\* domain size (ordered_variables[0][1]).
VariablesWithSmallerDomain(asg) ==
    {v \in Variables \ DOMAIN asg :
        \A u \in Variables \ DOMAIN asg :
            Cardinality(domains[v]) <= Cardinality(domains[u])}

\* Mutant of select_unassigned_variable: the first variable of the
\* smallest domain size is returned, whatever its number of neighbors.
select_unassigned_variable_First(asg) ==
    CHOOSE v \in VariablesWithSmallerDomain(asg) :
        \A u \in VariablesWithSmallerDomain(asg) : v <= u

\* select_unassigned_variable(assignment): the only variable of the
\* smallest domain size or, of several, the first in iteration order
\* with the most neighbors (the loop of lines 285-288 keeps the first
\* maximum).
select_unassigned_variable(asg) ==
    CHOOSE v \in VariablesWithSmallerDomain(asg) :
        \A u \in VariablesWithSmallerDomain(asg) :
            /\ Cardinality(neighbors(u)) <= Cardinality(neighbors(v))
            /\ Cardinality(neighbors(u)) = Cardinality(neighbors(v)) => v <= u

\* Mutant of Assign: the dict is replaced by one holding the new entry.
Assign_Alone(asg, variable, value) == [v \in {variable} |-> value]

\* assignment[variable] = value.
Assign(asg, variable, value) ==
    [v \in DOMAIN asg \cup {variable} |-> IF v = variable THEN value ELSE asg[v]]

\* assignment.pop(variable).
Pop(asg, variable) == [v \in DOMAIN asg \ {variable} |-> asg[v]]

\* consistent(assignment): lines 213-228.
consistent(asg) ==
    /\ Cardinality(DOMAIN asg) = Cardinality({asg[v] : v \in DOMAIN asg})
    /\ \A variable \in DOMAIN asg :
          /\ length[variable] = Len(asg[variable])
          /\ \A neighbor \in neighbors(variable) :
                neighbor \in DOMAIN asg =>
                    CharAt(asg[variable], overlaps[<<variable, neighbor>>][1])
                        = CharAt(asg[neighbor], overlaps[<<variable, neighbor>>][2])

\* What consistent(assignment) can do from the k-th key of the dict on,
\* the duplicate test of lines 213-214 passed: "True", "False", or
\* "IndexError" when line 225 indexes a neighbor's word that is too
\* short.  keys is the dict's iteration order; the neighbors of a
\* variable are visited in any order, and the first that stops the loop
\* decides.
RECURSIVE ConsistentFrom(_, _, _)
ConsistentFrom(asg, keys, k) ==
    IF k > Len(keys)
    THEN {"True"}
    ELSE LET variable == keys[k]
             assigned == neighbors(variable) \cap DOMAIN asg
             short == {neighbor \in assigned :
                          overlaps[<<variable, neighbor>>][2] >= Len(asg[neighbor])}
             differ == {neighbor \in assigned \ short :
                           CharAt(asg[variable], overlaps[<<variable, neighbor>>][1])
                               # CharAt(asg[neighbor], overlaps[<<variable, neighbor>>][2])}
         IN  IF length[variable] # Len(asg[variable])
             THEN {"False"}
             ELSE IF short = {} /\ differ = {}
             THEN ConsistentFrom(asg, keys, k + 1)
             ELSE (IF short # {} THEN {"IndexError"} ELSE {})
                      \cup (IF differ # {} THEN {"False"} ELSE {})

\* What a call consistent(assignment) can do: lines 213-228.
ConsistentOutcomes(asg, keys) ==
    IF Cardinality(DOMAIN asg) # Cardinality({asg[v] : v \in DOMAIN asg})
    THEN {"False"}
    ELSE ConsistentFrom(asg, keys, 1)

\* The assignments a caller passes: some variables, each with a word of
\* the word list (of any length).
Assignments == UNION {[S -> words] : S \in SUBSET Variables}

\* The caller's last call was not a call of consistent,
\* select_unassigned_variable or order_domain_values.  Those calls leave
\* the object as it is, so one made after another is that same call made
\* from the same store: the caller goes on with a call that changes it.
NoHelperReturn == returned.method \in {"none", "revise"}

\* The keys of a dict in iteration order, which is the order in which
\* the caller inserted them.  The puzzles of Init are closed under
\* renaming of the variables, so that order is taken to be ascending.
RECURSIVE Keys(_)
Keys(asg) ==
    IF DOMAIN asg = {}
    THEN <<>>
    ELSE LET first == CHOOSE v \in DOMAIN asg : \A u \in DOMAIN asg : v <= u
         IN  <<first>> \o Keys([v \in DOMAIN asg \ {first} |-> asg[v]])

\* A caller runs consistent(assignment) on the object as constructed
\* (consistent reads the puzzle and its argument, not the domains).
call_consistent ==
    /\ pc = "idle"
    /\ NoHelperReturn
    /\ domains = [v \in Variables |-> words]
    /\ \E asg \in Assignments :
          \E outcome \in ConsistentOutcomes(asg, Keys(asg)) :
              /\ assignment' = asg
              /\ returned' = [method |-> "consistent", value |-> outcome]
    /\ prev' = "other"
    /\ ac3_result' = "pending"
    /\ result' = Pending
    /\ UNCHANGED <<length, overlaps, words, domains, pc, op, arcs_queue, stack>>

\* The assignments the search can hold on the current store: some
\* variables, each with a word of its domain.
SearchAssignments ==
    {asg \in Assignments : \A v \in DOMAIN asg : asg[v] \in domains[v]}

\* A caller runs select_unassigned_variable(assignment) with a variable
\* left to select (line 279 needs one).
call_select_unassigned_variable ==
    /\ pc = "idle"
    /\ NoHelperReturn
    /\ \E asg \in SearchAssignments :
          /\ ~assignment_complete(asg)
          /\ assignment' = asg
          /\ returned' = [method |-> "select_unassigned_variable",
                          value |-> select_unassigned_variable(asg)]
    /\ prev' = "other"
    /\ ac3_result' = "pending"
    /\ result' = Pending
    /\ UNCHANGED <<length, overlaps, words, domains, pc, op, arcs_queue, stack>>

\* The number of words of neighbor's domain that differ from word at the
\* overlap with var (lines 246-250).
RuledOut(var, word, neighbor) ==
    Cardinality({neighbord_word \in domains[neighbor] :
        CharAt(word, overlaps[<<var, neighbor>>][1])
            # CharAt(neighbord_word, overlaps[<<var, neighbor>>][2])})

\* count after the loop of lines 243-250 over the neighbors in ns.
RECURSIVE CountOver(_, _, _)
CountOver(var, word, ns) ==
    IF ns = {}
    THEN 0
    ELSE LET neighbor == CHOOSE n \in ns : TRUE
         IN  RuledOut(var, word, neighbor) + CountOver(var, word, ns \ {neighbor})

\* Mutant of Count: the test of line 244 is dropped, every neighbor counts.
Count_AllNeighbors(var, word, asg) == CountOver(var, word, neighbors(var))

\* count for word (lines 242-250): only the neighbors not in assignment.
Count(var, word, asg) == CountOver(var, word, neighbors(var) \ DOMAIN asg)

\* response from key c on (lines 253-258): the keys of dict_response in
\* ascending order, the words of each key in the order they were met.
RECURSIVE ResponseFrom(_, _, _, _)
ResponseFrom(var, asg, met, c) ==
    LET HasCount(word) == Count(var, word, asg) = c
    IN  IF \A i \in 1..Len(met) : Count(var, met[i], asg) < c
        THEN <<>>
        ELSE SelectSeq(met, HasCount) \o ResponseFrom(var, asg, met, c + 1)

\* The lists order_domain_values(var, assignment) can return: one for
\* each order in which line 241 meets the words of the domain.
order_domain_values(var, asg) ==
    {ResponseFrom(var, asg, met, 0) : met \in Orderings(domains[var])}

\* A caller runs order_domain_values(var, assignment) for an unassigned
\* variable on a node-consistent store.
call_order_domain_values ==
    /\ pc = "idle"
    /\ NoHelperReturn
    /\ NodeConsistent(domains)
    /\ \E asg \in SearchAssignments : \E var \in Variables \ DOMAIN asg :
          \E response \in order_domain_values(var, asg) :
              /\ assignment' = asg
              /\ returned' = [method |-> "order_domain_values", var |-> var,
                              value |-> response]
    /\ prev' = "other"
    /\ ac3_result' = "pending"
    /\ result' = Pending
    /\ UNCHANGED <<length, overlaps, words, domains, pc, op, arcs_queue, stack>>

\* --------------------------------------------------------- backtrack
\* What backtrack returns when it holds a complete assignment (line 303).
ReturnAssignment == [kind |-> "assignment", value |-> assignment]

\* Mutant of ReturnNone: line 313 returns the assignment it holds.
ReturnNone_Assignment == [kind |-> "assignment", value |-> assignment]

\* What backtrack returns when its loop has used up the values (line 313).
ReturnNone == [kind |-> "None", value |-> EmptyAssignment]

\* solve returns r to the caller (line 96).
SolveReturn(r) ==
    /\ result' = r
    /\ stack' = <<>>
    /\ pc' = "idle"
    /\ op' = "none"
    /\ prev' = "other"

\* A call backtrack(assignment) starts: lines 302-306.  A complete
\* assignment is returned, and every suspended caller returns it in turn
\* (lines 309-310), up to solve.
backtrack ==
    /\ pc = "backtrack"
    /\ IF assignment_complete(assignment)
       THEN SolveReturn(ReturnAssignment)
       ELSE /\ stack' = Append(stack,
                    [variable |-> select_unassigned_variable(assignment),
                     remaining |-> domains[select_unassigned_variable(assignment)],
                     entry |-> assignment])
            /\ pc' = "backtrack_loop"
            /\ UNCHANGED <<op, prev, result>>
    /\ UNCHANGED <<length, overlaps, words, domains, arcs_queue, ac3_result,
                   assignment, returned>>

\* The for loop of lines 306-313 in the innermost call: the next value
\* is assigned and backtrack is called (lines 307-308), or the values
\* are used up and the call returns None (line 313), to solve or to the
\* suspended caller, which pops its own entry (line 311).
backtrack_loop ==
    /\ pc = "backtrack_loop"
    /\ LET frame == stack[Len(stack)]
           below == SubSeq(stack, 1, Len(stack) - 1)
       IN  IF frame.remaining # {}
           THEN /\ \E value \in frame.remaining :
                      /\ assignment' = Assign(assignment, frame.variable, value)
                      /\ stack' = Append(below,
                             [frame EXCEPT !.remaining = frame.remaining \ {value}])
                /\ pc' = "backtrack"
                /\ UNCHANGED <<op, prev, result>>
           ELSE IF below = <<>>
                THEN /\ SolveReturn(ReturnNone)
                     /\ UNCHANGED assignment
                ELSE /\ stack' = below
                     /\ assignment' = Pop(assignment, below[Len(below)].variable)
                     /\ UNCHANGED <<pc, op, prev, result>>
    /\ UNCHANGED <<length, overlaps, words, domains, arcs_queue, ac3_result, returned>>

\* ------------------------------------------------------ specification
Next ==
    \/ enforce_node_consistency
    \/ revise
    \/ ac3
    \/ ac3_arcs
    \/ ac3_loop
    \/ solve
    \/ backtrack
    \/ backtrack_loop

Spec == Init /\ [][Next]_vars

\* A caller that runs the helper methods on their own and keeps what
\* they return, between consistency calls that shape the store.
HelperNext ==
    \/ enforce_node_consistency
    \/ call_revise
    \/ call_consistent
    \/ call_select_unassigned_variable
    \/ call_order_domain_values

HelperSpec == Init /\ [][HelperNext]_vars

\* Word lists of two-letter words over two letters: the smallest lists
\* with which the words of an arc-consistent domain rule out different
\* numbers of a neighbor's words.
TwoLetterWords == {<<"a", "b">>, <<"b", "a">>, <<"b", "b">>}

\* __init__ for a puzzle with a list of two-letter words.
TwoLetterInit ==
    /\ length \in [Variables -> Lengths]
    /\ overlaps \in {ov \in [Arcs -> OverlapValues] : WellFormedOverlaps(length, ov)}
    /\ words \in SUBSET TwoLetterWords
    /\ domains = [v \in Variables |-> words]
    /\ pc = "idle"
    /\ op = "none"
    /\ prev = "other"
    /\ arcs_queue = <<>>
    /\ ac3_result = "pending"
    /\ assignment = EmptyAssignment
    /\ stack = <<>>
    /\ result = Pending
    /\ returned = NoReturn

\* main: the only call made on the object is solve().
MainNext ==
    \/ solve
    \/ ac3_loop
    \/ backtrack
    \/ backtrack_loop

MainSpec == TwoLetterInit /\ [][MainNext]_vars

\* ===================================================== properties
\* solve has returned (the state the caller sees until its next call).
SolveReturned == result.kind # "pending"

\* A complete assignment that takes every word from the word list, gives
\* each variable a word of its length, uses no word twice and agrees on
\* every overlap.
Satisfying(asg) ==
    /\ DOMAIN asg = Variables
    /\ \A v \in Variables : asg[v] \in words /\ Len(asg[v]) = length[v]
    /\ \A u, v \in Variables : u # v => asg[u] # asg[v]
    /\ \A a \in Arcs :
          overlaps[a] # None =>
              CharAt(asg[a[1]], overlaps[a][1]) = CharAt(asg[a[2]], overlaps[a][2])

\* The puzzle has a satisfying assignment.
Solvable == \E asg \in [Variables -> words] : Satisfying(asg)

\* C1 (soundness): whenever solve() returns an assignment, the assignment
\* holds every variable of the puzzle and consistent() is true of it.
C1_Soundness ==
    result.kind = "assignment" =>
        /\ assignment_complete(result.value)
        /\ consistent(result.value)

\* C2 (completeness on solvable inputs): when the puzzle has a satisfying
\* assignment, solve() returns an assignment, and that assignment is
\* complete and satisfies every constraint.
C2_Completeness ==
    (SolveReturned /\ Solvable) =>
        /\ result.kind = "assignment"
        /\ Satisfying(result.value)

\* C3 (unsatisfiable inputs): when the puzzle has no complete consistent
\* assignment, solve() returns None.
C3_Unsatisfiable ==
    (SolveReturned /\ ~Solvable) => result.kind = "None"

\* C4 (no duplicate words): in an assignment solve() returns no two
\* distinct variables hold the same word.
C4_NoDuplicateWords ==
    result.kind = "assignment" =>
        \A u, v \in DOMAIN result.value :
            u # v => result.value[u] # result.value[v]

\* C5 (overlap integrity): in an assignment solve() returns, neighbouring
\* variables agree on the character at their overlap.
C5_OverlapIntegrity ==
    result.kind = "assignment" =>
        \A x \in DOMAIN result.value :
            \A y \in neighbors(x) \cap DOMAIN result.value :
                CharAt(result.value[x], overlaps[<<x, y>>][1])
                    = CharAt(result.value[y], overlaps[<<x, y>>][2])

\* Some variable's domain is empty.
SomeDomainEmpty == \E v \in Variables : domains[v] = {}

\* C6 (emptied domain flows into "no solution"): backtrack leaves the
\* domains alone, so a domain that is empty when backtracking starts is
\* empty at every step of it and when solve() returns.  With an empty
\* domain the search assigns nothing, and solve() returns None.
C6_EmptyDomainNoSolution ==
    /\ (op = "solve" /\ pc \in {"backtrack", "backtrack_loop"} /\ SomeDomainEmpty) =>
           assignment = EmptyAssignment
    /\ (SolveReturned /\ SomeDomainEmpty) => result.kind = "None"

\* C6 witness: solve() returned None after AC-3 emptied a domain that node
\* consistency had left non-empty, and reported failure.
C6_Witness ==
    /\ SolveReturned
    /\ result.kind = "None"
    /\ ac3_result = "False"
    /\ SomeDomainEmpty
    /\ \A v \in Variables : \E word \in words : Len(word) = length[v]

\* The words of the word list that have v's length: v's domain after
\* node consistency on the object as constructed.
WordsOfLength(v) == {word \in words : Len(word) = length[v]}

\* C7 (monotonic shrink): no step adds a word to a domain: across
\* enforce_node_consistency, revise and every pass of ac3's loop, for any
\* arc list and whether ac3 ends in success or failure, each domain
\* afterwards is a subset of the domain before.
C7_MonotonicShrink ==
    [][\A v \in Variables : domains'[v] \subseteq domains[v]]_vars

\* C7 witness: an ac3(arcs) run in which a revision has removed a word
\* from a node-consistent domain and left another in it.
C7_Witness ==
    /\ pc = "ac3"
    /\ op = "ac3_arcs"
    /\ \E v \in Variables :
          /\ domains[v] # {}
          /\ domains[v] # WordsOfLength(v)
          /\ domains[v] \subseteq WordsOfLength(v)

\* A step of enforce_node_consistency() made right after
\* enforce_node_consistency() completed.
SecondNodeConsistency ==
    /\ pc = "idle"
    /\ prev = "enforce_node_consistency"
    /\ pc' = "idle"
    /\ prev' = "enforce_node_consistency"

\* A step of an ac3() run started right after an ac3() run completed.
SecondAc3 ==
    /\ pc = "ac3"
    /\ op = "ac3"
    /\ prev \in {"ac3_true", "ac3_false"}

\* C8 as claimed (idempotence, whatever the first ac3() returned): the
\* second enforce_node_consistency and the second ac3() change no domain.
C8_IdempotenceAnyResult ==
    [][(SecondNodeConsistency \/ SecondAc3) => domains' = domains]_vars

\* C8 as amended: the second enforce_node_consistency changes no domain,
\* and an ac3() run right after an ac3() run that returned True changes
\* no domain.
C8_Idempotence ==
    [][(SecondNodeConsistency \/ (SecondAc3 /\ prev = "ac3_true"))
          => domains' = domains]_vars

\* C8 witness: the second ac3() run, after a first that returned True and
\* had pruned a domain, has gone through its whole queue.
C8_Witness ==
    /\ pc = "ac3"
    /\ op = "ac3"
    /\ prev = "ac3_true"
    /\ arcs_queue = <<>>
    /\ \E v \in Variables : neighbors(v) # {} /\ domains[v] # WordsOfLength(v)

\* The running code keeps running: a loop that can take its next pass
\* takes it (one thread, no suspension points).
FairSpec ==
    Spec /\ WF_vars(ac3_loop) /\ WF_vars(backtrack) /\ WF_vars(backtrack_loop)

\* The nesting depth of the innermost backtrack call: the number of calls
\* suspended at line 308 (the call solve makes has depth 0).
RecursionDepth ==
    IF pc = "backtrack" THEN Len(stack)
    ELSE IF pc = "backtrack_loop" THEN Len(stack) - 1
    ELSE 0

\* C9 (termination): every run of ac3's loop ends (empty queue or
\* failure), for every store and arc list; every solve() returns; and the
\* recursion depth of backtrack, like the number of entries of the
\* assignment, never exceeds the number of variables.
C9_Termination ==
    /\ [](RecursionDepth <= Cardinality(Variables))
    /\ [](Cardinality(DOMAIN assignment) <= Cardinality(Variables))
    /\ (pc = "ac3") ~> (pc # "ac3")
    /\ (op = "solve") ~> SolveReturned

\* C9 witness: solve() has returned from the deepest call, after an AC-3
\* run that pruned a domain and re-enqueued arcs.
C9_Witness ==
    /\ SolveReturned
    /\ result.kind = "assignment"
    /\ DOMAIN result.value = Variables
    /\ \E v \in Variables : domains[v] # WordsOfLength(v)

\* C10 (ac3's result): whenever ac3 has returned, it returned True if and
\* only if no domain is empty.
C10_Ac3Result ==
    ac3_result # "pending" => (ac3_result = "True" <=> ~SomeDomainEmpty)

\* ac3(), seeded by default with every arc (v, neighbour), has returned
\* True: to the caller, or inside solve() (whose domains no later step
\* changes).
DefaultAc3ReturnedTrue ==
    /\ ac3_result = "True"
    /\ \/ pc = "idle" /\ prev = "ac3_true"
       \/ op = "solve"
       \/ SolveReturned

\* Every word of every domain has, in the domain of every neighbour, a
\* word that agrees with it at the overlap.
ArcConsistent ==
    \A x \in Variables : \A y \in Variables \ {x} :
        overlaps[<<x, y>>] # None =>
            \A wx \in domains[x] : \E wy \in domains[y] :
                wx[overlaps[<<x, y>>][1] + 1] = wy[overlaps[<<y, x>>][1] + 1]

\* C11 (arc consistency on success): when ac3(), seeded with all the arcs
\* (v, neighbour), has returned True, every word of every domain has a
\* supporting word in the domain of each neighbour, whatever the order in
\* which the arcs were seeded and re-enqueued.
C11_ArcConsistency == DefaultAc3ReturnedTrue => ArcConsistent

\* C11 witness: ac3() returned True to the caller after pruning the
\* domains of two variables (the second pruning needs a re-enqueued or a
\* later arc) and leaving every domain non-empty.
C11_Witness ==
    /\ pc = "idle"
    /\ prev = "ac3_true"
    /\ ac3_result = "True"
    /\ ~SomeDomainEmpty
    /\ \E u, v \in Variables :
          /\ u # v
          /\ domains[u] # WordsOfLength(u)
          /\ domains[v] # WordsOfLength(v)

\* C12 (revise): across a call revise(x, y), with an overlap (i, j) the
\* domain of x becomes exactly the set of its words wx for which the
\* domain of y holds a word wy with wx[i] = wy[j]; with no overlap it
\* stays as it was; the domain of y and of every other variable stays as
\* it was; and the call returns True exactly when a word was removed.
C12_Revise ==
    [][returned'.method = "revise" =>
          LET x == returned'.x
              y == returned'.y
              ij == overlaps[<<x, y>>]
          IN  /\ ij # None =>
                    domains'[x] = {wx \in domains[x] :
                                      \E wy \in domains[y] : wx[ij[1] + 1] = wy[ij[2] + 1]}
              /\ ij = None => domains'[x] = domains[x]
              /\ \A v \in Variables \ {x} : domains'[v] = domains[v]
              /\ returned'.value = (domains'[x] # domains[x])]_vars

\* C12 witness: revise(x, y) returned True after removing a word from the
\* domain of x and leaving another in it.
C12_Witness ==
    /\ returned.method = "revise"
    /\ returned.value
    /\ domains[returned.x] # {}
    /\ domains[returned.x] # WordsOfLength(returned.x)

\* The assigned words are pairwise distinct, each has the length of its
\* variable, and neighbouring variables that are both assigned agree at
\* their overlap.
MeetsConstraints(asg) ==
    /\ \A u, v \in DOMAIN asg : u # v => asg[u] # asg[v]
    /\ \A v \in DOMAIN asg : Len(asg[v]) = length[v]
    /\ \A x \in DOMAIN asg : \A y \in DOMAIN asg \ {x} :
          overlaps[<<x, y>>] # None =>
              asg[x][overlaps[<<x, y>>][1] + 1] = asg[y][overlaps[<<x, y>>][2] + 1]

\* C13 (consistent): for every partial or complete assignment, words of
\* the wrong length included, consistent(assignment) returns a boolean,
\* and returns True exactly when the assigned words are pairwise distinct,
\* each has its variable's length, and assigned neighbours agree at their
\* overlaps.
C13_Consistent ==
    returned.method = "consistent" =>
        /\ returned.value \in {"True", "False"}
        /\ returned.value = "True" <=> MeetsConstraints(assignment)

\* C14 (variable selection): whenever a variable is left unassigned, the
\* variable select_unassigned_variable(assignment) returns is not in the
\* assignment, no unassigned variable has a strictly smaller domain, and
\* no unassigned variable with a domain of that smallest size has strictly
\* more neighbours.
C14_SelectUnassignedVariable ==
    returned.method = "select_unassigned_variable" =>
        LET selected == returned.value
            unassigned == Variables \ DOMAIN assignment
            Degree(v) == Cardinality({u \in Variables \ {v} : overlaps[<<v, u>>] # None})
        IN  /\ selected \in unassigned
            /\ \A u \in unassigned :
                  /\ Cardinality(domains[u]) >= Cardinality(domains[selected])
                  /\ Cardinality(domains[u]) = Cardinality(domains[selected])
                        => Degree(u) <= Degree(selected)

\* C14 witness: the call returned a variable that is neither the first
\* unassigned variable nor the only one with the smallest domain: the
\* neighbour count decided.
C14_Witness ==
    /\ returned.method = "select_unassigned_variable"
    /\ \E u \in Variables \ DOMAIN assignment :
          /\ u < returned.value
          /\ Cardinality(domains[u]) = Cardinality(domains[returned.value])
          /\ Cardinality(neighbors(u)) < Cardinality(neighbors(returned.value))
    /\ \E u \in Variables \ DOMAIN assignment :
          Cardinality(domains[u]) > Cardinality(domains[returned.value])

\* The rule-out count of word for var: over the neighbours of var that
\* are not assigned, the number of words in the neighbour's domain whose
\* character at the overlap differs from word's.
RuleOutCount(var, word, asg, doms) ==
    LET Differing(y) ==
            Cardinality({wy \in doms[y] :
                word[overlaps[<<var, y>>][1] + 1] # wy[overlaps[<<var, y>>][2] + 1]})
        unassigned == {y \in Variables \ DOMAIN asg :
                          y # var /\ overlaps[<<var, y>>] # None}
        total[S \in SUBSET unassigned] ==
            IF S = {} THEN 0
            ELSE LET y == CHOOSE n \in S : TRUE
                 IN  Differing(y) + total[S \ {y}]
    IN  total[unassigned]

\* C15 (least-constraining-value ordering): the list
\* order_domain_values(var, assignment) returns holds every word of var's
\* domain exactly once and nothing else, in non-decreasing order of
\* rule-out count, where assigned neighbours count for nothing; the call
\* leaves the domain store as it was.
C15_OrderDomainValues ==
    [][returned'.method = "order_domain_values" =>
          LET var == returned'.var
              response == returned'.value
          IN  /\ domains' = domains
              /\ Len(response) = Cardinality(domains[var])
              /\ {response[i] : i \in 1..Len(response)} = domains[var]
              /\ \A i, j \in 1..Len(response) :
                    i < j => RuleOutCount(var, response[i], assignment', domains)
                                 <= RuleOutCount(var, response[j], assignment', domains)]_vars

\* C15 witness: the call returned two words of different rule-out counts
\* for a variable that has an assigned neighbour whose word disagrees with
\* one of them, and an unassigned one.
C15_Witness ==
    /\ returned.method = "order_domain_values"
    /\ Len(returned.value) = 2
    /\ RuleOutCount(returned.var, returned.value[1], assignment, domains)
           < RuleOutCount(returned.var, returned.value[2], assignment, domains)
    /\ \E y \in neighbors(returned.var) \cap DOMAIN assignment :
          \E i \in 1..2 :
              CharAt(returned.value[i], overlaps[<<returned.var, y>>][1])
                  # CharAt(assignment[y], overlaps[<<returned.var, y>>][2])
    /\ neighbors(returned.var) \ DOMAIN assignment # {}

\* C16 (consistency gate): the search recurses on an assignment only if it
\* passes consistent(): the assignment every backtrack call is entered
\* with, and the assignment the search returns, is consistent.
C16_ConsistencyGate ==
    /\ pc = "backtrack" => consistent(assignment)
    /\ (SolveReturned /\ result.kind = "assignment") => consistent(result.value)

\* C17 (value trial order): backtrack tries the words of the selected
\* variable in the order of the least-constraining-value heuristic: the
\* word it assigns next has a rule-out count no larger than that of any
\* word it has still to try.
C17_ValueTrialOrder ==
    [][(pc = "backtrack_loop" /\ pc' = "backtrack") =>
          LET var == stack[Len(stack)].variable
              untried == stack'[Len(stack')].remaining
          IN  \A word \in untried :
                  RuleOutCount(var, assignment'[var], assignment, domains)
                      <= RuleOutCount(var, word, assignment, domains)]_vars

\* The search of solve() is running.
Searching == op = "solve" /\ pc \in {"backtrack", "backtrack_loop"}

\* C18 (backtrack undo): a backtrack call that returns None leaves the
\* assignment exactly as it was when the call was entered; the assignment
\* holds exactly one entry per recursion level; and no step of the search
\* changes the domain store.
C18_BacktrackUndo ==
    /\ [](Searching =>
            /\ Cardinality(DOMAIN assignment) = RecursionDepth
            /\ \A k \in 1..Len(stack) : Cardinality(DOMAIN stack[k].entry) = k - 1
            /\ (pc = "backtrack_loop" /\ stack[Len(stack)].remaining = {}) =>
                   assignment = stack[Len(stack)].entry)
    /\ [](result.kind = "None" => assignment = EmptyAssignment)
    /\ [][Searching => domains' = domains]_vars

\* C18 witness: the search had words to try for some variable, and the
\* call solve() made returned None.
C18_Witness ==
    /\ SolveReturned
    /\ result.kind = "None"
    /\ \E v \in Variables : domains[v] # {}

\* C19 (domain lengths): in every state of solve() after
\* enforce_node_consistency (every revise step of AC-3, every step of the
\* search) every word of every domain has the length of its variable, so
\* every overlap index used on it lies inside the word.
C19_DomainLengths ==
    op = "solve" =>
        \A v \in Variables : \A word \in domains[v] :
            /\ Len(word) = length[v]
            /\ \A y \in Variables \ {v} :
                  overlaps[<<v, y>>] # None =>
                      /\ overlaps[<<v, y>>][1] < Len(word)
                      /\ overlaps[<<y, v>>][2] < Len(word)

\* C19 witness: the search of solve() is trying values after node
\* consistency removed words of the wrong length and AC-3 removed a word
\* from a domain, with no domain empty.
C19_Witness ==
    /\ op = "solve"
    /\ pc = "backtrack_loop"
    /\ assignment # EmptyAssignment
    /\ ~SomeDomainEmpty
    /\ \E v \in Variables : WordsOfLength(v) # words
    /\ \E v \in Variables : domains[v] # WordsOfLength(v)

\* A complete assignment that takes each variable's word from its domain
\* in doms and agrees on every overlap.
OverlapSolution(asg, doms) ==
    /\ \A v \in Variables : asg[v] \in doms[v]
    /\ \A x \in Variables : \A y \in Variables \ {x} :
          overlaps[<<x, y>>] # None =>
              asg[x][overlaps[<<x, y>>][1] + 1] = asg[y][overlaps[<<x, y>>][2] + 1]

\* doms without the words that have no supporting word in the domain of
\* some neighbour.
Supported(doms) ==
    [x \in Variables |->
        {wx \in doms[x] :
            \A y \in Variables \ {x} :
                overlaps[<<x, y>>] # None =>
                    \E wy \in doms[y] :
                        wx[overlaps[<<x, y>>][1] + 1] = wy[overlaps[<<x, y>>][2] + 1]}]

\* The largest arc-consistent store inside doms.
RECURSIVE LargestArcConsistent(_)
LargestArcConsistent(doms) ==
    IF Supported(doms) = doms THEN doms ELSE LargestArcConsistent(Supported(doms))

\* C20 (AC-3 preserves solutions): no step of ac3 removes from a domain a
\* word of a complete assignment that takes its words from the
\* node-consistent domains and agrees on every overlap, and with such an
\* assignment ac3 does not return False; a successful ac3() on the store
\* solve() gives it ends with the same domains whatever the order of the
\* arcs: the largest arc-consistent store inside the starting one.
C20_Ac3PreservesSolutions ==
    /\ [][pc = "ac3" =>
             \A asg \in [Variables -> words] :
                 OverlapSolution(asg, domains) =>
                     /\ OverlapSolution(asg, domains')
                     /\ ac3_result' # "False"]_vars
    /\ []((ac3_result = "True" /\ (op = "solve" \/ SolveReturned)) =>
             domains = LargestArcConsistent([v \in Variables |-> WordsOfLength(v)]))

\* C20 witness: the ac3() of solve() returned True after removing a word
\* from a domain, and an assignment that agrees on every overlap is still
\* in the domains.
C20_Witness ==
    /\ op = "solve"
    /\ ac3_result = "True"
    /\ \E v \in Variables : domains[v] # WordsOfLength(v)
    /\ \E asg \in [Variables -> words] : OverlapSolution(asg, domains)

====
